---- MODULE Spec2Model ----
(***************************************************************************)
(* A model of api-server-flask/password_hashing.py: the Fibonacci digest   *)
(* basic_fib_hash, the queue-based mitigations SlowBlackbox and            *)
(* HalvingBlackbox, the MITIGATION_SYSTEMS registry and UserStore.         *)
(*                                                                         *)
(* Texts are sequences of code points.  Python integers are unbounded, so  *)
(* hash_value is kept as a little-endian sequence of decimal digits.       *)
(* sha256 is modelled as an injective tagging of the bytes it is given.    *)
(* Time is abstracted: a bounded wait may expire whenever the thing it     *)
(* waits for has not happened yet.                                         *)
(* TimingAnalyzer is modelled without the durations it measures;           *)
(* calculate_epoch_changes takes durations that are whole numbers.  The    *)
(* Register and Login handlers of api/routes.py work on the rows of the    *)
(* "Profiles" table.  log is a history variable: the results put on and    *)
(* got from each pending queue, the workers alive when stop() cleared the  *)
(* flag, and the hash_value of the last digest.                            *)
(***************************************************************************)
EXTENDS Integers, Sequences, FiniteSets, TLC

\* ------------------------------------------------------------------ bounds
MaxLen == 2          \* longest password text a caller supplies
MaxCalls == 2        \* operations begun in one run of the store
MaxSlowCalls == 2    \* operations begun in one run against SlowBlackbox
MaxHalvingCalls == 3 \* operations begun in one run against HalvingBlackbox
MaxRestartCalls == 4 \* operations one thread begins against HalvingBlackbox
MaxApplyCalls == 2   \* verify_password calls in a run that calls nothing else
MaxExp == 2          \* largest binary exponent HalvingBlackbox.q grows to
MaxPasswordCount == 2 \* password_count given to compare_mitigation_systems
MaxTrials == 2       \* largest trials given to compare_mitigation_systems
MaxResults == 2      \* results per mitigation given to calculate_epoch_changes
MaxSamples == 2      \* durations per result given to calculate_epoch_changes

\* ---------------------------------------------------------------- inputs
Alphabet == {49, 50, 51}            \* the characters '1', '2', '3'
Usernames == {"apple", "pear"}
Emails == {"apple@example.com"}
Callers == {1, 2}
ExpectedOutputs == {1, 2}           \* the expected_outputs given to HalvingBlackbox.start
Durations == {1, 2, 3}              \* measured times, in units of one bucket width

RECURSIVE SeqsUpTo(_, _)
SeqsUpTo(S, n) ==
    IF n = 0 THEN {<<>>}
    ELSE LET shorter == SeqsUpTo(S, n - 1)
         IN  shorter \cup {Append(s, x) : s \in shorter, x \in S}

Passwords == SeqsUpTo(Alphabet, MaxLen)

\* --------------------------------------------------- Python values
PyFalse == <<"False">>      \* the value False where a digest is expected
None == <<"None">>

\* ------------------------------------------- unbounded integer arithmetic
\* little-endian decimal digits; 0 is <<0>>
RECURSIVE AddDigits(_, _, _)
AddDigits(x, y, carry) ==
    IF x = <<>> /\ y = <<>>
    THEN IF carry = 0 THEN <<>> ELSE <<carry>>
    ELSE LET dx == IF x = <<>> THEN 0 ELSE Head(x)
             dy == IF y = <<>> THEN 0 ELSE Head(y)
             s  == dx + dy + carry
             tx == IF x = <<>> THEN <<>> ELSE Tail(x)
             ty == IF y = <<>> THEN <<>> ELSE Tail(y)
         IN  <<s % 10>> \o AddDigits(tx, ty, s \div 10)

IntAdd(x, y) == AddDigits(x, y, 0)

RECURSIVE IntOfNat(_)
IntOfNat(n) == IF n < 10 THEN <<n>> ELSE <<n % 10>> \o IntOfNat(n \div 10)

\* str(n): the decimal digits, most significant first, as code points
str(n) == [i \in 1..Len(n) |-> 48 + n[Len(n) + 1 - i]]

\* hashlib.sha256(data).hexdigest(), collision-free
sha256_hexdigest(data) == <<"sha256", data>>

\* ------------------------------------------------------ basic_fib_hash
\* a, b = 1, 1; for _ in range(ascii_val): a, b = b, a + b
RECURSIVE FibLoop(_)
FibLoop(ascii_val) ==
    IF ascii_val = 0 THEN <<IntOfNat(1), IntOfNat(1)>>
    ELSE LET ab == FibLoop(ascii_val - 1)
         IN  <<ab[2], IntAdd(ab[1], ab[2])>>

\* b after the inner loop, for every code point the model hashes
Codes == Alphabet \cup {48 + d : d \in 0..9}
FibB == [ascii_val \in Codes |-> FibLoop(ascii_val)[2]]

\* a loop that keeps the value of the last character only (hash_value = b)
HashValue_keeps_last(password) ==
    IF password = <<>> THEN IntOfNat(0) ELSE FibB[password[Len(password)]]

\* lines 34-48: hash_value after the loop over the characters
RECURSIVE HashValue(_)
HashValue(password) ==
    IF password = <<>> THEN IntOfNat(0)
    ELSE IntAdd(HashValue(SubSeq(password, 1, Len(password) - 1)),
                FibB[password[Len(password)]])

DefaultMaxLength == 50

\* a function that hashes the whole text
truncate_nothing(password, max_length) == password

\* lines 30-31: password[:max_length] if the text is longer
truncate(password, max_length) ==
    IF Len(password) > max_length THEN SubSeq(password, 1, max_length) ELSE password

\* a hash_value that goes on from where the last call left it
initial_hash_value_kept(last) == last

\* line 34: hash_value = 0, whatever an earlier call computed
initial_hash_value(last) == IntOfNat(0)

\* lines 27-48: False for the empty text, else hash_value after the loop; last
\* is the hash_value of the call before this one
hash_value_of(last, password, max_length) ==
    IF password = <<>> THEN PyFalse
    ELSE IntAdd(initial_hash_value(last), HashValue(truncate(password, max_length)))

\* lines 27-52 after a call that ended with hash_value = last
basic_fib_hash_after(last, password, max_length) ==
    LET hash_value == hash_value_of(last, password, max_length)
    IN  IF hash_value = PyFalse THEN PyFalse ELSE sha256_hexdigest(str(hash_value))

basic_fib_hash(password, max_length) ==
    basic_fib_hash_after(IntOfNat(0), password, max_length)


\* func(*args) as the mitigations call it: basic_fib_hash(password), with the
\* digests of the texts the callers supply computed once
Digests == [password \in Passwords |-> basic_fib_hash(password, DefaultMaxLength)]
func(password) == Digests[password]

\* ------------------------------------------------------------------ state
VARIABLES
    users,            \* UserStore.users: username -> record
    slow,             \* MITIGATION_SYSTEMS['slow'], the SlowBlackbox instance
    slow_threads,     \* the threads SlowBlackbox.start created, in order
    halving,          \* MITIGATION_SYSTEMS['halving'], the HalvingBlackbox
    halving_threads,  \* the threads HalvingBlackbox.start created, in order
    pc,               \* each caller's position
    frame,            \* each caller's current call: function, arguments, locals
    ret,              \* each caller's last outcome: a return value or an error
    ncalls,           \* operations begun so far
    log,              \* history: what was put on and got from each pending queue,
                      \* and the workers that were alive when stop() cleared the flag
    analyzer,         \* TimingAnalyzer.compare_mitigation_systems: position and locals
    profiles          \* the rows of the "Profiles" table, in insertion order

vars == <<users, slow, slow_threads, halving, halving_threads, pc, frame, ret, ncalls,
          log, analyzer, profiles>>
mitigators == <<slow, slow_threads, halving, halving_threads>>

NoThread == <<"none", 0>>
CallerThread(c) == <<"caller", c>>
WorkerThread(w) == <<"worker", w>>

\* SlowBlackbox.__init__; interval is in units of initial_interval
SlowBlackbox_init ==
    [result_queue |-> <<>>, output_queue |-> <<>>, interval |-> 1,
     running |-> FALSE, total_processed |-> 0, lock |-> NoThread,
     printer_thread |-> 0]

\* HalvingBlackbox.__init__; q is initial_q * 2^q
HalvingBlackbox_init ==
    [q |-> 0, queue |-> <<>>, lock |-> NoThread, running |-> FALSE,
     print_thread |-> 0, total_printed |-> 0, expected_outputs |-> 0]

\* the keys of MITIGATION_SYSTEMS
MITIGATION_SYSTEMS == {"none", "slow", "halving"}
\* the names verify_password and the analyzer are called with
MitigationNames == MITIGATION_SYSTEMS \cup {"queue"}

\* the methods each class defines
SlowBlackboxMethods == {"start", "stop", "_process_queue", "__call__", "flush"}
HalvingBlackboxMethods == {"start", "stop", "flush_cache", "_print_queue", "__call__"}

NoFrame ==
    [fn |-> "", username |-> "", email |-> "", password |-> <<>>,
     mitigation_system |-> "", expected_outputs |-> 0,
     result |-> None, output |-> None, test_hash |-> None,
     checked |-> 0, after |-> "", how |-> "",
     max_length |-> 0, all_results |-> <<>>, req_data |-> None]

\* the worker threads that have not ended
AliveThreads(threads) == {w \in DOMAIN threads : threads[w].pc # "dead"}

\* nothing put or got yet, no worker told to stop
NoLog ==
    [slow_put |-> <<>>, slow_got |-> <<>>, halving_put |-> <<>>, halving_got |-> <<>>,
     slow_stopped |-> {}, halving_stopped |-> {},
     hash_value |-> IntOfNat(0)]

\* compare_mitigation_systems not entered.  all_results keeps, per mitigation
\* name in insertion order, the password and is_correct of every result; the
\* measured durations are not part of the model
NoAnalyzer ==
    [pc |-> "idle", username |-> "", passwords |-> <<>>, trials |-> 0,
     mitigation |-> 0, password |-> 0, trial |-> 0, correct |-> <<>>,
     results |-> <<>>, all_results |-> <<>>, raised |-> ""]

NoRet == [kind |-> "none", value |-> None]
Return(v) == [kind |-> "return", value |-> v]
Raise(e) == [kind |-> "raise", value |-> e]

Idle(c) == pc[c] \in {"idle", "done"}

StoreInit ==
    /\ users = << >>
    /\ slow = SlowBlackbox_init
    /\ slow_threads = <<>>
    /\ halving = HalvingBlackbox_init
    /\ halving_threads = <<>>
    /\ pc = [c \in Callers |-> "idle"]
    /\ frame = [c \in Callers |-> NoFrame]
    /\ ret = [c \in Callers |-> NoRet]
    /\ ncalls = 0
    /\ log = NoLog
    /\ analyzer = NoAnalyzer
    /\ profiles = <<>>

\* ------------------------------------------------------------ UserStore
NumHashes == 5

\* the five texts register_user hashes
modified_password(password, i) ==
    IF i = 0 THEN password ELSE password \o str(IntOfNat(i))

register_hashes(password) ==
    [k \in 1..NumHashes |->
        basic_fib_hash(modified_password(password, k - 1), DefaultMaxLength)]

\* a caller enters register_user(username, email, password)
CallRegister(c, username, email, password) ==
    /\ Idle(c)
    /\ ncalls < MaxCalls
    /\ ncalls' = ncalls + 1
    /\ pc' = [pc EXCEPT ![c] = "register_user"]
    /\ frame' = [frame EXCEPT ![c] = [NoFrame EXCEPT !.fn = "register_user",
                    !.username = username, !.email = email, !.password = password]]
    /\ ret' = [ret EXCEPT ![c] = NoRet]
    /\ UNCHANGED <<users, mitigators, log, analyzer, profiles>>

\* register_user without its duplicate check
register_exists_unchecked(us, username) == FALSE

\* line 237: if username in self.users
register_exists(us, username) == username \in DOMAIN us

register_user(c) ==
    /\ pc[c] = "register_user"
    /\ LET f == frame[c] IN
       IF register_exists(users, f.username)
       THEN /\ ret' = [ret EXCEPT ![c] = Return(<<FALSE, "Username already exists">>)]
            /\ users' = users
       ELSE /\ users' = [u \in DOMAIN users \cup {f.username} |->
                            IF u = f.username
                            THEN [email |-> f.email,
                                  password_hashes |-> register_hashes(f.password)]
                            ELSE users[u]]
            /\ ret' = [ret EXCEPT ![c] = Return(<<TRUE, "User registered successfully">>)]
    /\ pc' = [pc EXCEPT ![c] = "done"]
    /\ UNCHANGED <<mitigators, frame, ncalls, log, analyzer, profiles>>

\* verify_password(username, password, mitigation_system) is entered
EnterVerify(c, username, password, mitigation_system, budget) ==
    /\ Idle(c)
    /\ ncalls < budget
    /\ ncalls' = ncalls + 1
    /\ pc' = [pc EXCEPT ![c] = "verify_password"]
    /\ frame' = [frame EXCEPT ![c] = [NoFrame EXCEPT !.fn = "verify_password",
                    !.username = username, !.password = password,
                    !.mitigation_system = mitigation_system]]
    /\ ret' = [ret EXCEPT ![c] = NoRet]
    /\ UNCHANGED <<users, mitigators, log, profiles>>

\* a caller enters verify_password
CallVerify(c, username, password, mitigation_system, budget) ==
    /\ EnterVerify(c, username, password, mitigation_system, budget)
    /\ UNCHANGED analyzer

\* lines 288-296: the loop over the stored hashes; <<password_match, comparisons made>>
RECURSIVE compare_loop(_, _, _)
compare_loop(test_hash, password_hashes, i) ==
    IF i > Len(password_hashes) THEN <<FALSE, i - 1>>
    ELSE IF test_hash = password_hashes[i] THEN <<TRUE, i>>
    ELSE compare_loop(test_hash, password_hashes, i + 1)

\* lines 276, 288-296: what verify_password does once test_hash is there; f is
\* the caller's frame holding test_hash
verify_compare(c, f) ==
    LET r == compare_loop(f.test_hash, users[f.username].password_hashes, 1)
    IN  /\ ret' = [ret EXCEPT ![c] = Return(r[1])]
        /\ frame' = [frame EXCEPT ![c] = [f EXCEPT !.checked = r[2]]]
        /\ pc' = [pc EXCEPT ![c] = "done"]

\* the guard without its test of the mitigation name
verify_rejects_unknown_user_only(us, username, mitigation_system) ==
    username \notin DOMAIN us

\* line 273: the guard that makes verify_password return False at once
verify_rejects(us, username, mitigation_system) ==
    username \notin DOMAIN us \/ mitigation_system \notin MITIGATION_SYSTEMS

\* lines 273-285: the guard, then the dispatch to the mitigation
verify_password(c) ==
    /\ pc[c] = "verify_password"
    /\ LET f == frame[c] IN
       IF verify_rejects(users, f.username, f.mitigation_system)
       THEN /\ ret' = [ret EXCEPT ![c] = Return(FALSE)]
            /\ pc' = [pc EXCEPT ![c] = "done"]
            /\ frame' = frame
       ELSE IF f.username \notin DOMAIN users
       THEN /\ ret' = [ret EXCEPT ![c] = Raise("KeyError")]     \* self.users[username]
            /\ pc' = [pc EXCEPT ![c] = "done"]
            /\ frame' = frame
       ELSE IF f.mitigation_system \notin MITIGATION_SYSTEMS
       THEN /\ ret' = [ret EXCEPT ![c] = Raise("KeyError")]     \* MITIGATION_SYSTEMS[name]
            /\ pc' = [pc EXCEPT ![c] = "done"]
            /\ frame' = frame
       ELSE IF f.mitigation_system = "none"
       THEN \* the lambda calls f(*args) itself
            verify_compare(c, [f EXCEPT !.test_hash = func(f.password)])
       ELSE /\ pc' = [pc EXCEPT ![c] =
                         IF f.mitigation_system = "slow" THEN "slow_call" ELSE "halving_call"]
            /\ frame' = frame
            /\ ret' = ret
    /\ UNCHANGED <<users, mitigators, ncalls, log, analyzer, profiles>>

MethodsOf(mitigation_system) ==
    IF mitigation_system = "slow" THEN SlowBlackboxMethods ELSE HalvingBlackboxMethods

\* a caller calls a method of a registered instance; a class that does not
\* define the method raises AttributeError
CallMethod(c, mitigation_system, method, expected_outputs, budget) ==
    /\ Idle(c)
    /\ ncalls < budget
    /\ ncalls' = ncalls + 1
    /\ frame' = [frame EXCEPT ![c] = [NoFrame EXCEPT !.fn = method,
                    !.mitigation_system = mitigation_system,
                    !.expected_outputs = expected_outputs]]
    /\ IF method \in MethodsOf(mitigation_system)
       THEN /\ pc' = [pc EXCEPT ![c] = mitigation_system \o "_" \o method]
            /\ ret' = [ret EXCEPT ![c] = NoRet]
       ELSE /\ pc' = [pc EXCEPT ![c] = "done"]
            /\ ret' = [ret EXCEPT ![c] = Raise("AttributeError")]
    /\ UNCHANGED <<users, mitigators, log, analyzer, profiles>>

\* ------------------------------------------------- queue.Queue, Lock
\* Queue.put(item)
queue_put(q, item) == Append(q, item)

\* a queue that hands out its newest item
queue_get_newest(q) == [item |-> q[Len(q)], rest |-> SubSeq(q, 1, Len(q) - 1)]

\* a get that empties the queue
queue_get_clears(q) == [item |-> Head(q), rest |-> <<>>]

\* Queue.get() on a non-empty queue: the oldest item, and what stays
queue_get(q) == [item |-> Head(q), rest |-> Tail(q)]

\* a with-block that goes on without taking the lock
acquire_skipped(lock, thread) == lock

\* Lock.acquire by a thread, entered when the lock is free
acquire(lock, thread) == thread

\* ---------------------------------------------------------- SlowBlackbox
\* __call__, line 122: if not self.running: self.start()
slow_call(c) ==
    /\ pc[c] = "slow_call"
    /\ IF ~slow.running
       THEN /\ pc' = [pc EXCEPT ![c] = "slow_start"]
            /\ frame' = [frame EXCEPT ![c].after = "slow_exec"]
       ELSE /\ pc' = [pc EXCEPT ![c] = "slow_exec"]
            /\ frame' = frame
    /\ UNCHANGED <<users, mitigators, ret, ncalls, log, analyzer, profiles>>

\* where start() and stop() return to: the caller of __call__, or the caller
Resume(c, value) ==
    IF frame[c].after = ""
    THEN /\ pc' = [pc EXCEPT ![c] = "done"]
         /\ ret' = [ret EXCEPT ![c] = Return(value)]
    ELSE /\ pc' = [pc EXCEPT ![c] = frame[c].after]
         /\ ret' = ret

\* start, line 75: if not self.running
slow_start(c) ==
    /\ pc[c] = "slow_start"
    /\ IF ~slow.running
       THEN pc' = [pc EXCEPT ![c] = "slow_start_set"] /\ ret' = ret
       ELSE Resume(c, None)
    /\ UNCHANGED <<users, mitigators, frame, ncalls, log, analyzer, profiles>>

\* start, line 76: self.running = True
slow_start_set(c) ==
    /\ pc[c] = "slow_start_set"
    /\ slow' = [slow EXCEPT !.running = TRUE]
    /\ pc' = [pc EXCEPT ![c] = "slow_start_thread"]
    /\ UNCHANGED <<users, slow_threads, halving, halving_threads, frame, ret, ncalls, log, analyzer, profiles>>

\* start, lines 77-79: the thread is created, kept in printer_thread, started
slow_start_thread(c) ==
    /\ pc[c] = "slow_start_thread"
    /\ slow_threads' = Append(slow_threads, [pc |-> "loop", doubled |-> TRUE])
    /\ slow' = [slow EXCEPT !.printer_thread = Len(slow_threads) + 1]
    /\ Resume(c, None)
    /\ UNCHANGED <<users, halving, halving_threads, frame, ncalls, log, analyzer, profiles>>

\* __call__, lines 126-129: the function runs, then the lock is taken
slow_exec(c) ==
    /\ pc[c] = "slow_exec"
    /\ slow.lock = NoThread
    /\ slow' = [slow EXCEPT !.lock = acquire(@, CallerThread(c))]
    /\ frame' = [frame EXCEPT ![c].result = func(frame[c].password)]
    /\ pc' = [pc EXCEPT ![c] = "slow_put"]
    /\ UNCHANGED <<users, slow_threads, halving, halving_threads, ret, ncalls, log, analyzer, profiles>>

\* __call__, line 130, and the release of the lock
slow_put(c) ==
    /\ pc[c] = "slow_put"
    /\ slow' = [slow EXCEPT !.result_queue = queue_put(@, frame[c].result),
                            !.lock = NoThread]
    /\ log' = [log EXCEPT !.slow_put = Append(@, frame[c].result)]
    /\ pc' = [pc EXCEPT ![c] = "slow_wait"]
    /\ UNCHANGED <<users, slow_threads, halving, halving_threads, frame, ret, ncalls,
                   analyzer, profiles>>

\* output_queue.get(timeout=5.0) with queue.Empty left to reach the caller
slow_wait_outcome_uncaught(output_queue, result) ==
    IF output_queue # <<>>
    THEN [output |-> Head(output_queue), output_queue |-> Tail(output_queue),
          how |-> "output", raised |-> FALSE]
    ELSE [output |-> None, output_queue |-> output_queue,
          how |-> "timeout", raised |-> TRUE]

\* __call__, lines 133-140: output_queue.get(timeout=5.0), or the direct result
slow_wait_outcome(output_queue, result) ==
    IF output_queue # <<>>
    THEN [output |-> Head(output_queue), output_queue |-> Tail(output_queue),
          how |-> "output", raised |-> FALSE]
    ELSE [output |-> result, output_queue |-> output_queue,
          how |-> "timeout", raised |-> FALSE]

slow_wait(c) ==
    /\ pc[c] = "slow_wait"
    /\ LET o == slow_wait_outcome(slow.output_queue, frame[c].result) IN
       /\ slow' = [slow EXCEPT !.output_queue = o.output_queue]
       /\ IF o.raised
          THEN /\ ret' = [ret EXCEPT ![c] = Raise("Empty")]
               /\ pc' = [pc EXCEPT ![c] = "done"]
               /\ frame' = [frame EXCEPT ![c].how = o.how]
          ELSE verify_compare(c, [frame[c] EXCEPT !.output = o.output, !.how = o.how,
                                                    !.test_hash = o.output])
    /\ UNCHANGED <<users, slow_threads, halving, halving_threads, ncalls, log, analyzer, profiles>>

\* stop, line 83: if self.running
slow_stop(c) ==
    /\ pc[c] = "slow_stop"
    /\ IF slow.running
       THEN pc' = [pc EXCEPT ![c] = "slow_stop_clear"] /\ ret' = ret
       ELSE Resume(c, None)
    /\ UNCHANGED <<users, mitigators, frame, ncalls, log, analyzer, profiles>>

\* stop, line 84: self.running = False
slow_stop_clear(c) ==
    /\ pc[c] = "slow_stop_clear"
    /\ slow' = [slow EXCEPT !.running = FALSE]
    /\ log' = [log EXCEPT !.slow_stopped = @ \cup AliveThreads(slow_threads)]
    /\ pc' = [pc EXCEPT ![c] = "slow_stop_join"]
    /\ UNCHANGED <<users, slow_threads, halving, halving_threads, frame, ret, ncalls, analyzer, profiles>>

\* stop, lines 85-86: join(timeout=2.0) returns when the thread has ended or
\* when the wait expires
slow_stop_join(c) ==
    /\ pc[c] = "slow_stop_join"
    /\ frame' = [frame EXCEPT ![c].how =
                    IF slow.printer_thread = 0 THEN "no thread"
                    ELSE IF slow_threads[slow.printer_thread].pc = "dead" THEN "joined"
                    ELSE "timeout"]
    /\ Resume(c, None)
    /\ UNCHANGED <<users, mitigators, ncalls, log, analyzer, profiles>>

\* flush, lines 147-151: leave the loop on an empty queue or on the timeout;
\* time.sleep(0.1) changes nothing
slow_flush(c) ==
    /\ pc[c] = "slow_flush"
    /\ \/ /\ slow.result_queue = <<>>
          /\ frame' = [frame EXCEPT ![c].how = "empty"]
       \/ /\ slow.result_queue # <<>>
          /\ frame' = [frame EXCEPT ![c].how = "timeout"]
    /\ pc' = [pc EXCEPT ![c] = "slow_flush_return"]
    /\ UNCHANGED <<users, mitigators, ret, ncalls, log, analyzer, profiles>>

\* flush, line 153
slow_flush_return(c) ==
    /\ pc[c] = "slow_flush_return"
    /\ ret' = [ret EXCEPT ![c] = Return(slow.total_processed)]
    /\ pc' = [pc EXCEPT ![c] = "done"]
    /\ UNCHANGED <<users, mitigators, frame, ncalls, log, analyzer, profiles>>

\* _process_queue, line 92: while self.running (after time.sleep, line 108)
slow_process_loop(w) ==
    /\ w \in DOMAIN slow_threads
    /\ slow_threads[w].pc = "loop"
    /\ slow_threads' = [slow_threads EXCEPT ![w].pc =
                            IF slow.running THEN "lock" ELSE "dead"]
    /\ UNCHANGED <<users, slow, halving, halving_threads, pc, frame, ret, ncalls, log, analyzer, profiles>>

\* _process_queue, line 93: with self.lock
slow_process_lock(w) ==
    /\ w \in DOMAIN slow_threads
    /\ slow_threads[w].pc = "lock"
    /\ slow.lock = NoThread
    /\ slow' = [slow EXCEPT !.lock = acquire(@, WorkerThread(w))]
    /\ slow_threads' = [slow_threads EXCEPT ![w].pc = "body"]
    /\ UNCHANGED <<users, halving, halving_threads, pc, frame, ret, ncalls, log, analyzer, profiles>>

\* a worker that doubles on every wake-up that finds the queue empty
interval_doubles_when_empty(result_queue, doubled) == result_queue = <<>>

\* _process_queue, line 95: if self.result_queue.empty() and doubled
interval_doubles(result_queue, doubled) == result_queue = <<>> /\ doubled

\* _process_queue, lines 95-105, and the release of the lock
slow_process_body(w) ==
    /\ w \in DOMAIN slow_threads
    /\ slow_threads[w].pc = "body"
    /\ IF interval_doubles(slow.result_queue, slow_threads[w].doubled)
       THEN /\ slow' = [slow EXCEPT !.interval = @ * 2, !.lock = NoThread]
            /\ slow_threads' = [slow_threads EXCEPT ![w].pc = "loop", ![w].doubled = FALSE]
            /\ log' = log
       ELSE IF slow.result_queue # <<>>
       THEN LET got == queue_get(slow.result_queue) IN
            /\ slow' = [slow EXCEPT !.result_queue = got.rest,
                                    !.output_queue = queue_put(@, got.item),
                                    !.total_processed = @ + 1,
                                    !.lock = NoThread]
            /\ slow_threads' = [slow_threads EXCEPT ![w].pc = "loop", ![w].doubled = TRUE]
            /\ log' = [log EXCEPT !.slow_got = Append(@, got.item)]
       ELSE /\ slow' = [slow EXCEPT !.lock = NoThread]
            /\ slow_threads' = [slow_threads EXCEPT ![w].pc = "loop"]
            /\ log' = log
    /\ UNCHANGED <<users, halving, halving_threads, pc, frame, ret, ncalls,
                   analyzer, profiles>>

\* a store with one registered user, as register_user leaves it
Registered ==
    [u \in {"apple"} |-> [email |-> "apple@example.com",
                          password_hashes |-> register_hashes(<<49>>)]]

SlowInit ==
    /\ users = Registered
    /\ slow = SlowBlackbox_init
    /\ slow_threads = <<>>
    /\ halving = HalvingBlackbox_init
    /\ halving_threads = <<>>
    /\ pc = [c \in Callers |-> "idle"]
    /\ frame = [c \in Callers |-> NoFrame]
    /\ ret = [c \in Callers |-> NoRet]
    /\ ncalls = 0
    /\ log = NoLog
    /\ analyzer = NoAnalyzer
    /\ profiles = <<>>

SlowPasswords == {<<49>>, <<50>>}

\* verify_password through 'slow' with the right and a wrong password, for an
\* unknown user, and with the name the analyzer uses ('queue')
SlowVerifyArgs ==
    {<<"apple", p, "slow">> : p \in SlowPasswords}
        \cup {<<"pear", <<49>>, "slow">>, <<"apple", <<49>>, "queue">>}

SlowCall(c) ==
    \/ \E a \in SlowVerifyArgs : CallVerify(c, a[1], a[2], a[3], MaxSlowCalls)
    \/ \E fn \in {"start", "stop", "flush"} : CallMethod(c, "slow", fn, 0, MaxSlowCalls)

SlowCaller(c) ==
    \/ SlowCall(c)
    \/ verify_password(c)
    \/ slow_call(c)
    \/ slow_start(c)
    \/ slow_start_set(c)
    \/ slow_start_thread(c)
    \/ slow_exec(c)
    \/ slow_put(c)
    \/ slow_wait(c)
    \/ slow_stop(c)
    \/ slow_stop_clear(c)
    \/ slow_stop_join(c)
    \/ slow_flush(c)
    \/ slow_flush_return(c)

SlowWorker(w) ==
    \/ slow_process_loop(w)
    \/ slow_process_lock(w)
    \/ slow_process_body(w)

SlowNext ==
    \/ \E c \in Callers : SlowCaller(c)
    \/ \E w \in 1..MaxSlowCalls : SlowWorker(w)

SlowSpec == SlowInit /\ [][SlowNext]_vars

\* ------------------------------------------------------- HalvingBlackbox
\* __call__, lines 211-215: flush_cache, the function runs, the lock is taken
halving_call(c) ==
    /\ pc[c] = "halving_call"
    /\ halving.lock = NoThread
    /\ halving' = [halving EXCEPT !.lock = acquire(@, CallerThread(c))]
    /\ frame' = [frame EXCEPT ![c].result = func(frame[c].password)]
    /\ pc' = [pc EXCEPT ![c] = "halving_put"]
    /\ UNCHANGED <<users, slow, slow_threads, halving_threads, ret, ncalls, log, analyzer, profiles>>

\* __call__, lines 216-218: the put, the release of the lock, return result
halving_put(c) ==
    /\ pc[c] = "halving_put"
    /\ halving' = [halving EXCEPT !.queue = queue_put(@, frame[c].result),
                                  !.lock = NoThread]
    /\ log' = [log EXCEPT !.halving_put = Append(@, frame[c].result)]
    /\ verify_compare(c, [frame[c] EXCEPT !.output = frame[c].result, !.how = "direct",
                                          !.test_hash = frame[c].result])
    /\ UNCHANGED <<users, slow, slow_threads, halving_threads, ncalls, analyzer, profiles>>

\* start, line 167: self.running = True
halving_start(c) ==
    /\ pc[c] = "halving_start"
    /\ halving' = [halving EXCEPT !.running = TRUE]
    /\ pc' = [pc EXCEPT ![c] = "halving_start_expected"]
    /\ UNCHANGED <<users, slow, slow_threads, halving_threads, frame, ret, ncalls, log, analyzer, profiles>>

\* start, line 168: self.expected_outputs = expected_outputs
halving_start_expected(c) ==
    /\ pc[c] = "halving_start_expected"
    /\ halving' = [halving EXCEPT !.expected_outputs = frame[c].expected_outputs]
    /\ pc' = [pc EXCEPT ![c] = "halving_start_thread"]
    /\ UNCHANGED <<users, slow, slow_threads, halving_threads, frame, ret, ncalls, log, analyzer, profiles>>

\* start, lines 169-171: the thread is created, kept in print_thread, started
halving_start_thread(c) ==
    /\ pc[c] = "halving_start_thread"
    /\ halving_threads' = Append(halving_threads, [pc |-> "loop"])
    /\ halving' = [halving EXCEPT !.print_thread = Len(halving_threads) + 1]
    /\ Resume(c, None)
    /\ UNCHANGED <<users, slow, slow_threads, frame, ncalls, log, analyzer, profiles>>

\* stop, line 174: self.running = False
halving_stop(c) ==
    /\ pc[c] = "halving_stop"
    /\ halving' = [halving EXCEPT !.running = FALSE]
    /\ log' = [log EXCEPT !.halving_stopped = @ \cup AliveThreads(halving_threads)]
    /\ pc' = [pc EXCEPT ![c] = "halving_stop_join"]
    /\ UNCHANGED <<users, slow, slow_threads, halving_threads, frame, ret, ncalls, analyzer, profiles>>

\* stop, lines 175-176: join(timeout=2.0) returns when the thread has ended or
\* when the wait expires
halving_stop_join(c) ==
    /\ pc[c] = "halving_stop_join"
    /\ frame' = [frame EXCEPT ![c].how =
                    IF halving.print_thread = 0 THEN "no thread"
                    ELSE IF halving_threads[halving.print_thread].pc = "dead" THEN "joined"
                    ELSE "timeout"]
    /\ Resume(c, None)
    /\ UNCHANGED <<users, mitigators, ncalls, log, analyzer, profiles>>

\* the rule that halves q after every output
q_after_output_always_halved(q, rest) == q - 1

\* _print_queue, lines 199-200: q is halved if the queue is still non-empty
q_after_output(q, rest) == IF rest # <<>> THEN q - 1 ELSE q

\* _print_queue, line 186: while self.running (after time.sleep, line 208)
halving_print_loop(w) ==
    /\ w \in DOMAIN halving_threads
    /\ halving_threads[w].pc = "loop"
    /\ halving_threads' = [halving_threads EXCEPT ![w].pc =
                              IF halving.running THEN "lock" ELSE "dead"]
    /\ UNCHANGED <<users, slow, slow_threads, halving, pc, frame, ret, ncalls, log, analyzer, profiles>>

\* _print_queue, line 187: with self.lock.  q doubles without limit while the
\* queue stays empty; the model lets the thread sleep on once q is at MaxExp
halving_print_lock(w) ==
    /\ w \in DOMAIN halving_threads
    /\ halving_threads[w].pc = "lock"
    /\ halving.lock = NoThread
    /\ halving.queue # <<>> \/ halving.q < MaxExp
    /\ halving' = [halving EXCEPT !.lock = acquire(@, WorkerThread(w))]
    /\ halving_threads' = [halving_threads EXCEPT ![w].pc = "body"]
    /\ UNCHANGED <<users, slow, slow_threads, pc, frame, ret, ncalls, log, analyzer, profiles>>

\* _print_queue, lines 188-202, and the release of the lock
halving_print_body(w) ==
    /\ w \in DOMAIN halving_threads
    /\ halving_threads[w].pc = "body"
    /\ IF halving.queue = <<>>
       THEN /\ halving' = [halving EXCEPT !.q = @ + 1, !.lock = NoThread]
            /\ log' = log
       ELSE LET got == queue_get(halving.queue) IN
            /\ halving' = [halving EXCEPT !.queue = got.rest,
                                          !.total_printed = @ + 1,
                                          !.q = q_after_output(@, got.rest),
                                          !.lock = NoThread]
            /\ log' = [log EXCEPT !.halving_got = Append(@, got.item)]
    /\ halving_threads' = [halving_threads EXCEPT ![w].pc = "check"]
    /\ UNCHANGED <<users, slow, slow_threads, pc, frame, ret, ncalls, analyzer, profiles>>

\* _print_queue, lines 204-208: leave once the expected outputs are printed
halving_print_check(w) ==
    /\ w \in DOMAIN halving_threads
    /\ halving_threads[w].pc = "check"
    /\ halving_threads' = [halving_threads EXCEPT ![w].pc =
                              IF halving.total_printed >= halving.expected_outputs
                              THEN "dead" ELSE "loop"]
    /\ UNCHANGED <<users, slow, slow_threads, halving, pc, frame, ret, ncalls, log, analyzer, profiles>>

HalvingInit ==
    /\ users = Registered
    /\ slow = SlowBlackbox_init
    /\ slow_threads = <<>>
    /\ halving = HalvingBlackbox_init
    /\ halving_threads = <<>>
    /\ pc = [c \in Callers |-> "idle"]
    /\ frame = [c \in Callers |-> NoFrame]
    /\ ret = [c \in Callers |-> NoRet]
    /\ ncalls = 0
    /\ log = NoLog
    /\ analyzer = NoAnalyzer
    /\ profiles = <<>>

HalvingVerifyArgs ==
    {<<"apple", p, "halving">> : p \in SlowPasswords}

HalvingCall(c) ==
    \/ \E a \in HalvingVerifyArgs : CallVerify(c, a[1], a[2], a[3], MaxHalvingCalls)
    \/ \E n \in ExpectedOutputs : CallMethod(c, "halving", "start", n, MaxHalvingCalls)
    \/ \E fn \in {"stop", "flush"} : CallMethod(c, "halving", fn, 0, MaxHalvingCalls)

HalvingCaller(c) ==
    \/ HalvingCall(c)
    \/ verify_password(c)
    \/ halving_call(c)
    \/ halving_put(c)
    \/ halving_start(c)
    \/ halving_start_expected(c)
    \/ halving_start_thread(c)
    \/ halving_stop(c)
    \/ halving_stop_join(c)

HalvingWorker(w) ==
    \/ halving_print_loop(w)
    \/ halving_print_lock(w)
    \/ halving_print_body(w)
    \/ halving_print_check(w)

HalvingNext ==
    \/ \E c \in Callers : HalvingCaller(c)
    \/ \E w \in 1..MaxHalvingCalls : HalvingWorker(w)

HalvingSpec == HalvingInit /\ [][HalvingNext]_vars

\* one thread that uses the registered instance for a while: it starts it, has
\* passwords verified under it, and starts it again
HalvingRestartCall(c) ==
    \/ \E a \in HalvingVerifyArgs : CallVerify(c, a[1], a[2], a[3], MaxRestartCalls)
    \/ \E n \in ExpectedOutputs : CallMethod(c, "halving", "start", n, MaxRestartCalls)

HalvingRestartNext ==
    \/ HalvingRestartCall(1)
    \/ verify_password(1)
    \/ halving_call(1)
    \/ halving_put(1)
    \/ halving_start(1)
    \/ halving_start_expected(1)
    \/ halving_start_thread(1)
    \/ \E w \in 1..MaxRestartCalls : HalvingWorker(w)

HalvingRestartSpec == HalvingInit /\ [][HalvingRestartNext]_vars

\* the two registered instances share no state; a run whose callers all call
\* the same one of them
OnlySlowCalled ==
    \A c \in Callers : frame[c].mitigation_system \in {"", "slow", "queue"}

OnlyHalvingCalled ==
    \A c \in Callers : frame[c].mitigation_system \in {"", "halving"}

OneInstanceNext ==
    \/ OnlySlowCalled /\ SlowNext
    \/ OnlyHalvingCalled /\ HalvingNext

OneInstanceSpec == SlowInit /\ [][OneInstanceNext]_vars

\* -------------------------------------------------------- TimingAnalyzer
\* list(MITIGATION_SYSTEMS.keys()), in the order the dictionary is written
mitigation_systems == <<"none", "slow", "halving">>

\* the thread that runs the analysis
AnalyzerThread == 1

AnalyzerCalls == Len(mitigation_systems) * MaxPasswordCount * MaxTrials

\* generate_passwords: the correct password, then count - 1 random texts
generate_passwords(correct_password, others) == <<correct_password>> \o others

\* any(correct)
any(correct) == \E k \in DOMAIN correct : correct[k] = TRUE

\* compare_mitigation_systems is entered: lines 372-375
CallCompare(username, correct_password, others, trials) ==
    /\ analyzer.pc = "idle"
    /\ analyzer' = [NoAnalyzer EXCEPT !.pc = "for_mitigation", !.username = username,
                       !.passwords = generate_passwords(correct_password, others),
                       !.trials = trials, !.mitigation = 1]
    /\ UNCHANGED <<users, mitigators, pc, frame, ret, ncalls, log, profiles>>

\* lines 377-384: the next mitigation, started if it is the queue-based one
compare_for_mitigation ==
    /\ analyzer.pc = "for_mitigation"
    /\ IF analyzer.mitigation > Len(mitigation_systems)
       THEN analyzer' = [analyzer EXCEPT !.pc = "done"]                 \* line 391
       ELSE IF mitigation_systems[analyzer.mitigation] = "queue"
       THEN \* MITIGATION_SYSTEMS['queue'].start()
            analyzer' = [analyzer EXCEPT !.pc = "done", !.raised = "KeyError"]
       ELSE analyzer' = [analyzer EXCEPT !.pc = "for_password", !.password = 1,
                            !.trial = 1, !.correct = <<>>, !.results = <<>>]
    /\ UNCHANGED <<users, mitigators, pc, frame, ret, ncalls, log, profiles>>

\* analyze_mitigation_system, lines 343-348: the next timed verify_password
analyze_call ==
    /\ analyzer.pc = "for_password"
    /\ analyzer.password <= Len(analyzer.passwords)
    /\ EnterVerify(AnalyzerThread, analyzer.username,
                   analyzer.passwords[analyzer.password],
                   mitigation_systems[analyzer.mitigation], AnalyzerCalls)
    /\ analyzer' = [analyzer EXCEPT !.pc = "timed_verify"]

\* lines 348-362: verify_password has returned; after the last trial the
\* result for this password is appended
analyze_return ==
    /\ analyzer.pc = "timed_verify"
    /\ pc[AnalyzerThread] = "done"
    /\ IF ret[AnalyzerThread].kind = "raise"
       THEN analyzer' = [analyzer EXCEPT !.pc = "done",
                                         !.raised = ret[AnalyzerThread].value]
       ELSE LET correct == Append(analyzer.correct, ret[AnalyzerThread].value) IN
            IF analyzer.trial < analyzer.trials
            THEN analyzer' = [analyzer EXCEPT !.pc = "for_password",
                                 !.trial = @ + 1, !.correct = correct]
            ELSE analyzer' = [analyzer EXCEPT !.pc = "for_password",
                                 !.password = @ + 1, !.trial = 1, !.correct = <<>>,
                                 !.results = Append(@,
                                     [password |-> analyzer.passwords[analyzer.password],
                                      is_correct |-> any(correct)])]
    /\ UNCHANGED <<users, mitigators, pc, frame, ret, ncalls, log, profiles>>

\* lines 364-368 and 385-389: flush and stop if the name is 'queue', then the
\* results are kept under the mitigation's name
analyze_done ==
    /\ analyzer.pc = "for_password"
    /\ analyzer.password > Len(analyzer.passwords)
    /\ IF mitigation_systems[analyzer.mitigation] = "queue"
       THEN \* MITIGATION_SYSTEMS['queue'].flush()
            analyzer' = [analyzer EXCEPT !.pc = "done", !.raised = "KeyError"]
       ELSE analyzer' = [analyzer EXCEPT !.pc = "for_mitigation", !.mitigation = @ + 1,
                            !.all_results = Append(@,
                                <<mitigation_systems[analyzer.mitigation],
                                  analyzer.results>>)]
    /\ UNCHANGED <<users, mitigators, pc, frame, ret, ncalls, log, profiles>>

\* run_timing_analysis, lines 489-499: the user is registered, then compared
CompareCall ==
    \E others \in {o \in SeqsUpTo(SlowPasswords, MaxPasswordCount - 1) :
                        Len(o) = MaxPasswordCount - 1},
       trials \in 1..MaxTrials :
        CallCompare("apple", <<49>>, others, trials)

CompareThread(c) ==
    \/ verify_password(c)
    \/ slow_call(c)
    \/ slow_start(c)
    \/ slow_start_set(c)
    \/ slow_start_thread(c)
    \/ slow_exec(c)
    \/ slow_put(c)
    \/ slow_wait(c)
    \/ halving_call(c)
    \/ halving_put(c)

CompareNext ==
    \/ CompareCall
    \/ compare_for_mitigation
    \/ analyze_call
    \/ analyze_return
    \/ analyze_done
    \/ CompareThread(AnalyzerThread)
    \/ \E w \in {1} : SlowWorker(w)

CompareSpec == SlowInit /\ [][CompareNext]_vars

\* ------------------------------------------- calculate_epoch_changes
\* the values calculate_epoch_changes stores: an int or a str
PyInt(n) == [kind |-> "int", value |-> n]
PyStr(t) == [kind |-> "str", value |-> t]

RECURSIVE sum(_)
sum(xs) == IF xs = <<>> THEN 0 ELSE Head(xs) + sum(Tail(xs))

min(xs) == CHOOSE x \in {xs[k] : k \in DOMAIN xs} : \A k \in DOMAIN xs : x <= xs[k]
max(xs) == CHOOSE x \in {xs[k] : k \in DOMAIN xs} : \A k \in DOMAIN xs : x >= xs[k]

abs(x) == IF x < 0 THEN -x ELSE x

\* n * sum(x^2) - sum(x)^2: the sample variance of xs times n * (n - 1)
SquaredSpread(xs) == Len(xs) * sum([k \in DOMAIN xs |-> xs[k] * xs[k]]) - sum(xs) * sum(xs)

\* line 475: abs(mean_correct - mean_incorrect) > (std_correct + std_incorrect)
\* for two samples of at least two values each, in exact arithmetic: with
\* n, m the lengths and K = n^2 m^2 (n-1) (m-1), the squared difference of
\* the means minus both variances is P / K and four times the product of the
\* variances is 4 Vc Vi n m / K.  (The code compares floats; it can differ
\* from this only where the two sides are equal.)
means_apart(all_correct, all_incorrect) ==
    LET n  == Len(all_correct)
        m  == Len(all_incorrect)
        N  == abs(sum(all_correct) * m - sum(all_incorrect) * n)
        Vc == SquaredSpread(all_correct)
        Vi == SquaredSpread(all_incorrect)
        P  == N * N * (n - 1) * (m - 1) - Vc * n * m * m * (m - 1)
                  - Vi * m * n * n * (n - 1)
    IN  P > 0 /\ P * P > 4 * Vc * Vi * n * n * n * m * m * m * (n - 1) * (m - 1)

\* lines 445-450: [time for times in ... for time in times]
RECURSIVE flatten(_)
flatten(lists) == IF lists = <<>> THEN <<>> ELSE Head(lists) \o flatten(Tail(lists))

times_where(results, is_correct) ==
    flatten([k \in DOMAIN SelectSeq(results, LAMBDA r : r.is_correct = is_correct) |->
                SelectSeq(results, LAMBDA r : r.is_correct = is_correct)[k].times])

\* lines 445-480: the value stored for one mitigation
epoch_change(results) ==
    LET all_correct   == times_where(results, TRUE)
        all_incorrect == times_where(results, FALSE)
    IN  IF all_correct = <<>> \/ all_incorrect = <<>>
        THEN PyStr("N/A - insufficient data")
        ELSE IF max(all_correct) < min(all_incorrect) \/ max(all_incorrect) < min(all_correct)
        THEN PyInt(1)
        ELSE IF Len(all_correct) < 2 \/ Len(all_incorrect) < 2
        THEN \* statistics.stdev raises StatisticsError, caught at line 479
             PyStr("Error in calculation: variance requires at least two data points")
        ELSE IF means_apart(all_correct, all_incorrect)
        THEN PyInt(1)
        ELSE PyInt(0)

\* lines 441-482: one entry per mitigation, in the order of all_results
epoch_changes_of(all_results) ==
    [k \in DOMAIN all_results |-> <<all_results[k][1], epoch_change(all_results[k][2])>>]

\* a caller enters calculate_epoch_changes(all_results)
CallEpochChanges(c, all_results) ==
    /\ Idle(c)
    /\ ncalls < MaxCalls
    /\ ncalls' = ncalls + 1
    /\ pc' = [pc EXCEPT ![c] = "calculate_epoch_changes"]
    /\ frame' = [frame EXCEPT ![c] = [NoFrame EXCEPT !.fn = "calculate_epoch_changes",
                                                     !.all_results = all_results]]
    /\ ret' = [ret EXCEPT ![c] = NoRet]
    /\ UNCHANGED <<users, mitigators, log, analyzer, profiles>>

calculate_epoch_changes(c) ==
    /\ pc[c] = "calculate_epoch_changes"
    /\ ret' = [ret EXCEPT ![c] = Return(epoch_changes_of(frame[c].all_results))]
    /\ pc' = [pc EXCEPT ![c] = "done"]
    /\ UNCHANGED <<users, mitigators, frame, ncalls, log, analyzer, profiles>>

\* the results analyze_mitigation_system returns: every result carries as many
\* durations as there were trials
TimesOf(trials) == {t \in SeqsUpTo(Durations, trials) : Len(t) = trials}

ResultsOf(trials) ==
    {r \in SeqsUpTo([is_correct : BOOLEAN, times : TimesOf(trials)], MaxResults) : r # <<>>}

\* all_results with the results of one mitigation
EpochNext ==
    \E c \in {1} :
        \/ \E trials \in 1..MaxSamples : \E results \in ResultsOf(trials) :
              CallEpochChanges(c, << <<"slow", results>> >>)
        \/ calculate_epoch_changes(c)

EpochSpec == StoreInit /\ [][EpochNext]_vars

\* ------------------------------------------- basic_fib_hash on its own
\* the max_length arguments: shorter than, as long as and longer than the texts
MaxLengths == 1..MaxLen \cup {DefaultMaxLength}

\* the texts hashed: the empty text and texts of '1' and '2'
HashTexts == SeqsUpTo({49, 50}, MaxLen)

\* one call for every caller, and one call before them
HashCalls == Cardinality(Callers) + 1

\* a caller enters basic_fib_hash(password, max_length)
CallHash(c, password, max_length) ==
    /\ Idle(c)
    /\ ncalls < HashCalls
    /\ ncalls' = ncalls + 1
    /\ pc' = [pc EXCEPT ![c] = "basic_fib_hash"]
    /\ frame' = [frame EXCEPT ![c] = [NoFrame EXCEPT !.fn = "basic_fib_hash",
                    !.password = password, !.max_length = max_length]]
    /\ ret' = [ret EXCEPT ![c] = NoRet]
    /\ UNCHANGED <<users, mitigators, log, analyzer, profiles>>

\* lines 27-52; the history keeps the hash_value this call ended with
basic_fib_hash_return(c) ==
    /\ pc[c] = "basic_fib_hash"
    /\ LET f == frame[c]
           hash_value == hash_value_of(log.hash_value, f.password, f.max_length)
       IN  /\ ret' = [ret EXCEPT ![c] =
                         Return(basic_fib_hash_after(log.hash_value, f.password, f.max_length))]
           /\ log' = [log EXCEPT !.hash_value =
                         IF hash_value = PyFalse THEN @ ELSE hash_value]
    /\ pc' = [pc EXCEPT ![c] = "done"]
    /\ UNCHANGED <<users, mitigators, frame, ncalls, analyzer, profiles>>

HashNext ==
    \E c \in Callers :
        \/ \E password \in HashTexts, max_length \in MaxLengths :
              CallHash(c, password, max_length)
        \/ basic_fib_hash_return(c)

HashSpec == StoreInit /\ [][HashNext]_vars

\* ------------------------------------------ api/routes.py: Register, Login
\* request bodies that pass the validation of signup_model and login_model:
\* every field is there and is not empty
LoginTexts == {<<49>>, <<50>>}

Requests ==
    [username : LoginTexts, email : LoginTexts, phone_number : LoginTexts,
     password : LoginTexts]

\* the four fields, each through ph.basic_fib_hash
hashed(req_data) ==
    [username |-> func(req_data.username), email |-> func(req_data.email),
     phone_number |-> func(req_data.phone_number), password |-> func(req_data.password)]

\* what a handler returns: the body and the status code
Response(status, success, msg, token) ==
    [status |-> status, success |-> success, msg |-> msg, token |-> token]

\* jwt.encode({'username': _username, 'exp': ...}, SECRET_KEY)
jwt_encode(username) == <<"jwt", username>>

\* a request reaches a handler of the API
CallPost(c, fn, req_data) ==
    /\ Idle(c)
    /\ ncalls < MaxCalls
    /\ ncalls' = ncalls + 1
    /\ pc' = [pc EXCEPT ![c] = fn]
    /\ frame' = [frame EXCEPT ![c] = [NoFrame EXCEPT !.fn = fn, !.req_data = req_data]]
    /\ ret' = [ret EXCEPT ![c] = NoRet]
    /\ UNCHANGED <<users, mitigators, log, analyzer, profiles>>

\* Register.post: the insert succeeds, or the call to the database raises
Register_post(c) ==
    /\ pc[c] = "Register.post"
    /\ \/ /\ profiles' = Append(profiles, hashed(frame[c].req_data))
          /\ ret' = [ret EXCEPT ![c] =
                Return(Response(200, TRUE, "The user was successfully registered", None))]
       \/ /\ profiles' = profiles
          /\ ret' = [ret EXCEPT ![c] =
                Return(Response(200, None, "Unexpected error occurred.", None))]
    /\ pc' = [pc EXCEPT ![c] = "done"]
    /\ UNCHANGED <<users, mitigators, frame, ncalls, log, analyzer>>

\* lines 178-208 once the select has answered with the rows in data
login_response(h, data) ==
    IF h.username = PyFalse \/ h.password = PyFalse
    THEN Response(400, FALSE, "all fields are required.", None)
    ELSE IF data = <<>>
    THEN Response(400, FALSE, "This username does not exist.", None)
    ELSE IF data[1].email # h.email
    THEN Response(400, FALSE, "Username and email do not match.", None)
    ELSE IF data[1].phone_number # h.phone_number
    THEN Response(400, FALSE, "Username and phone number do not match.", None)
    ELSE IF data[1].password # h.password
    THEN Response(400, FALSE, "Wrong password.", None)
    ELSE Response(200, TRUE, "", jwt_encode(h.username))

\* Login.post: the select answers, or the call to the database raises
Login_post(c) ==
    /\ pc[c] = "Login.post"
    /\ LET h == hashed(frame[c].req_data)
           data == SelectSeq(profiles, LAMBDA row : row.username = h.username)
       IN  \/ ret' = [ret EXCEPT ![c] = Return(login_response(h, data))]
           \/ ret' = [ret EXCEPT ![c] =
                 Return(Response(500, FALSE, "Unexpected error during login.", None))]
    /\ pc' = [pc EXCEPT ![c] = "done"]
    /\ UNCHANGED <<users, mitigators, frame, ncalls, log, analyzer, profiles>>

LoginNext ==
    \E c \in {1} :
        \/ \E req_data \in Requests : CallPost(c, "Register.post", req_data)
        \/ \E req_data \in Requests : CallPost(c, "Login.post", req_data)
        \/ Register_post(c)
        \/ Login_post(c)

LoginSpec == StoreInit /\ [][LoginNext]_vars

\* ------------------------------------------------- the store on its own
StoreCall(c) ==
    \/ \E u \in Usernames, e \in Emails, p \in Passwords : CallRegister(c, u, e, p)
    \/ \E u \in Usernames, p \in Passwords, m \in {"none", "queue", "exponential"} :
          CallVerify(c, u, p, m, MaxCalls)

StoreNext ==
    \E c \in {1} :
        \/ StoreCall(c)
        \/ register_user(c)
        \/ verify_password(c)

Spec == StoreInit /\ [][StoreNext]_vars

\* SlowSpec with the scheduling the threads get: a thread that can take a
\* step takes it, and a thread waiting for the lock gets it once it is free
\* often enough (the worker sleeps between two acquisitions)
SlowProgress(c) ==
    \/ verify_password(c)
    \/ slow_call(c)
    \/ slow_start(c)
    \/ slow_start_set(c)
    \/ slow_start_thread(c)
    \/ slow_put(c)
    \/ slow_wait(c)
    \/ slow_stop(c)
    \/ slow_stop_clear(c)
    \/ slow_stop_join(c)
    \/ slow_flush(c)
    \/ slow_flush_return(c)

SlowFairness ==
    /\ \A c \in Callers : WF_vars(SlowProgress(c)) /\ SF_vars(slow_exec(c))
    /\ \A w \in 1..MaxSlowCalls : WF_vars(SlowWorker(w))

SlowFairSpec == SlowSpec /\ SlowFairness

\* runs in which the registered instances are used through __call__ only:
\* verify_password under 'slow' or 'halving', no start(), stop() or flush()
\* from outside.  SlowBlackbox.__call__ starts a worker; nothing in these runs
\* starts a HalvingBlackbox thread, so halving_threads stays empty
ApplyArgs ==
    {<<"apple", p, m>> : p \in SlowPasswords, m \in {"slow", "halving"}}

ApplyCall(c) ==
    \E a \in ApplyArgs : CallVerify(c, a[1], a[2], a[3], MaxApplyCalls)

ApplyProgress(c) ==
    \/ verify_password(c)
    \/ slow_call(c)
    \/ slow_start(c)
    \/ slow_start_set(c)
    \/ slow_start_thread(c)
    \/ slow_put(c)
    \/ slow_wait(c)
    \/ halving_put(c)

ApplyNext ==
    \/ \E c \in Callers :
          \/ ApplyCall(c)
          \/ ApplyProgress(c)
          \/ slow_exec(c)
          \/ halving_call(c)
    \/ \E w \in 1..MaxApplyCalls : SlowWorker(w)

ApplyFairness ==
    /\ \A c \in Callers :
          WF_vars(ApplyProgress(c)) /\ SF_vars(slow_exec(c)) /\ SF_vars(halving_call(c))
    /\ \A w \in 1..MaxApplyCalls : WF_vars(SlowWorker(w))

ApplyFairSpec == SlowInit /\ [][ApplyNext]_vars /\ ApplyFairness

\* ------------------------------------------------------------- properties
Alive(threads) == Cardinality({w \in DOMAIN threads : threads[w].pc # "dead"})

Returned(c, fn) ==
    pc[c] = "done" /\ frame[c].fn = fn /\ ret[c].kind = "return"

IsDigest(h) == h[1] = "sha256"

\* C1: verify_password returns True only if the supplied value matches at
\* every one of the five stored positions
C1_TrueOnlyIfAllFiveMatch ==
    \A c \in Callers :
        (Returned(c, "verify_password") /\ ret[c].value = TRUE)
            => \A i \in 1..NumHashes :
                  frame[c].test_hash = users[frame[c].username].password_hashes[i]

\* C2: under 'none', for a user registered with password p, verify_password
\* returns True for p and False for every other text
C2_NoneAcceptsExactlyTheRegistered ==
    \A c \in Callers :
        (/\ Returned(c, "verify_password")
         /\ frame[c].mitigation_system = "none"
         /\ frame[c].username \in DOMAIN users)
            => \A p \in Passwords :
                  users[frame[c].username].password_hashes = register_hashes(p)
                      => ret[c].value = (frame[c].password = p)

\* C3: the value SlowBlackbox.__call__ hands back to a caller is the result
\* of the computation that this call ran
C3_ApplyReturnsOwnResult ==
    \A c \in Callers :
        (frame[c].fn = "verify_password" /\ frame[c].mitigation_system = "slow"
            /\ frame[c].output # None)
            => frame[c].output = frame[c].result

\* C4: at most one worker thread of an instance is alive at any time
C4_AtMostOneWorker ==
    /\ Alive(slow_threads) <= 1
    /\ Alive(halving_threads) <= 1

\* C5: verify_password for an unknown user or an unknown mitigation name
\* returns False, raises nothing, calls no mitigation and leaves the store
\* as it is
C5_VerifyFailsClosed ==
    [][\A c \in Callers :
          (/\ pc[c] = "verify_password"
           /\ pc'[c] # "verify_password"
           /\ \/ frame[c].username \notin DOMAIN users
              \/ frame[c].mitigation_system \notin MITIGATION_SYSTEMS)
              => /\ pc'[c] = "done"
                 /\ ret'[c].kind = "return"
                 /\ ret'[c].value = FALSE
                 /\ users' = users
                 /\ UNCHANGED mitigators]_vars

C5_Witness ==
    \E c, d \in Callers :
        /\ Returned(c, "verify_password") /\ ret[c].value = FALSE
        /\ frame[c].username \notin DOMAIN users
        /\ frame[c].mitigation_system = "slow"
        /\ Returned(d, "verify_password") /\ ret[d].value = FALSE
        /\ frame[d].username \in DOMAIN users
        /\ frame[d].mitigation_system = "queue"
        /\ slow = SlowBlackbox_init

\* C6: register_user for a username that exists returns failure and leaves
\* every stored record as it was
C6_DuplicateRegisterChangesNothing ==
    [][\A c \in Callers :
          (/\ pc[c] = "register_user"
           /\ pc'[c] # "register_user"
           /\ frame[c].username \in DOMAIN users)
              => /\ ret'[c].kind = "return"
                 /\ ret'[c].value[1] = FALSE
                 /\ users' = users]_vars

C6_Witness ==
    \E c \in Callers :
        /\ Returned(c, "register_user")
        /\ ret[c].value[1] = FALSE
        /\ users[frame[c].username].password_hashes # register_hashes(frame[c].password)

\* C7: every SlowBlackbox.__call__ returns; when its wait on the output
\* channel expires it returns its own result and raises nothing
C7_WaitExpiryReturnsOwnResult ==
    \A c \in Callers :
        (pc[c] = "slow_wait" /\ pc'[c] # "slow_wait" /\ slow.output_queue = <<>>)
            => /\ pc'[c] = "done"
               /\ ret'[c].kind = "return"
               /\ frame'[c].output = frame[c].result

C7_ApplyAlwaysReturns ==
    /\ [][C7_WaitExpiryReturnsOwnResult]_vars
    /\ \A c \in Callers :
          (pc[c] = "slow_call") ~> (pc[c] = "done" /\ ret[c].kind = "return")

C7_Witness ==
    \E c \in Callers :
        /\ Returned(c, "verify_password")
        /\ frame[c].how = "timeout"
        /\ frame[c].output = frame[c].result
        /\ ~slow.running

\* C8: the digest of the empty text is never a value that is stored or
\* compared as a digest
C8_EmptyTextNeverStoredOrCompared ==
    /\ \A u \in DOMAIN users : \A i \in 1..NumHashes :
          IsDigest(users[u].password_hashes[i])
    /\ \A c \in Callers :
          frame[c].test_hash = None \/ IsDigest(frame[c].test_hash)

\* C9: once a call of a mitigation instance has returned, the instance is
\* running with a live worker
C9_ApplyStartsInstance ==
    [][\A c \in Callers :
          (pc[c] = "halving_put" /\ pc'[c] = "done")
              => halving'.running /\ Alive(halving_threads') >= 1]_vars

\* C10: every mitigation instance offers flush(), and flush() returns only on
\* an empty queue or on its timeout
C10_FlushOfferedAndBounded ==
    \A c \in Callers :
        (pc[c] = "done" /\ frame[c].fn = "flush")
            => ret[c].kind = "return" /\ frame[c].how \in {"empty", "timeout"}

\* C11: in each instance the results the worker has emitted, followed by
\* the results still pending, are the results in the order they were enqueued
C11_EmittedInEnqueueOrder ==
    /\ log.slow_got \o slow.result_queue = log.slow_put
    /\ log.halving_got \o halving.queue = log.halving_put

\* two callers enqueued different results while the worker had emitted
\* nothing, and the worker has emitted both since
C11_Witness ==
    /\ Len(log.slow_got) = 2
    /\ log.slow_got[1] # log.slow_got[2]
    /\ \A c \in Callers : frame[c].how = "output"

\* the same on HalvingBlackbox
C11_HalvingWitness ==
    /\ Len(log.halving_got) = 2
    /\ log.halving_got[1] # log.halving_got[2]

\* the threads inside a with-block of each instance
InSlowLock ==
    {CallerThread(c) : c \in {d \in Callers : pc[d] = "slow_put"}}
        \cup {WorkerThread(w) : w \in {v \in DOMAIN slow_threads : slow_threads[v].pc = "body"}}

InHalvingLock ==
    {CallerThread(c) : c \in {d \in Callers : pc[d] = "halving_put"}}
        \cup {WorkerThread(w) :
                 w \in {v \in DOMAIN halving_threads : halving_threads[v].pc = "body"}}

\* the threads that take this step
Moved ==
    {CallerThread(c) : c \in {d \in Callers : pc'[d] # pc[d]}}
        \cup {WorkerThread(w) :
                 w \in {v \in DOMAIN slow_threads : slow_threads'[v] # slow_threads[v]}
                     \cup {v \in DOMAIN halving_threads :
                              halving_threads'[v] # halving_threads[v]}}

C12_OneThreadInLock ==
    /\ InSlowLock \subseteq {slow.lock}
    /\ InHalvingLock \subseteq {halving.lock}

C12_MutationByHolder ==
    /\ (slow'.result_queue # slow.result_queue \/ slow'.interval # slow.interval)
          => slow.lock # NoThread /\ Moved = {slow.lock}
    /\ (halving'.queue # halving.queue \/ halving'.q # halving.q)
          => halving.lock # NoThread /\ Moved = {halving.lock}

\* C12: every change of an instance's pending queue or of its delay quantum
\* is made by the thread that holds the instance's lock, and at most one
\* thread is inside the lock at a time
C12_MutationsUnderLock ==
    /\ []C12_OneThreadInLock
    /\ [][C12_MutationByHolder]_vars

\* a caller is about to put under the lock while a worker that has already
\* doubled the interval and another caller wait for the lock
C12_Witness ==
    \E c, d \in Callers : \E w \in DOMAIN slow_threads :
        /\ pc[c] = "slow_put" /\ slow.lock = CallerThread(c)
        /\ pc[d] = "slow_exec"
        /\ slow_threads[w].pc = "lock"
        /\ slow.interval > 1

\* the same on HalvingBlackbox
C12_HalvingWitness ==
    \E c, d \in Callers : \E w \in DOMAIN halving_threads :
        /\ pc[c] = "halving_put" /\ halving.lock = CallerThread(c)
        /\ pc[d] = "halving_call"
        /\ halving_threads[w].pc = "lock"
        /\ halving.q > 0

\* C13: when compare_mitigation_systems returns, every instance it exercised
\* is stopped, has no live worker and has an empty pending queue
C13_CompareLeavesInstancesStopped ==
    analyzer.pc = "done"
        => /\ ~slow.running /\ Alive(slow_threads) = 0 /\ slow.result_queue = <<>>
           /\ ~halving.running /\ Alive(halving_threads) = 0 /\ halving.queue = <<>>

\* the number of adjacent pairs of a sequence that differ
RECURSIVE Transitions(_)
Transitions(buckets) ==
    IF Len(buckets) < 2 THEN 0
    ELSE (IF buckets[1] # buckets[2] THEN 1 ELSE 0) + Transitions(Tail(buckets))

\* the durations of the results in recorded order, one bucket wide each
Buckets(results) == flatten([k \in DOMAIN results |-> results[k].times])

\* C14: for every strategy calculate_epoch_changes returns an integer, the
\* number of adjacent pairs of recorded samples whose buckets differ
C14_ScoreCountsBucketChanges ==
    \A c \in Callers :
        Returned(c, "calculate_epoch_changes")
            => \A k \in DOMAIN ret[c].value :
                  /\ ret[c].value[k][2].kind = "int"
                  /\ ret[c].value[k][2].value = Transitions(Buckets(frame[c].all_results[k][2]))

\* C15: two calls of basic_fib_hash with the same non-empty text of length
\* <= max_length return the same digest, whatever was hashed before
C15_SameInputSameDigest ==
    \A c, d \in Callers :
        (/\ Returned(c, "basic_fib_hash") /\ Returned(d, "basic_fib_hash")
         /\ frame[c].password = frame[d].password
         /\ frame[c].max_length = frame[d].max_length
         /\ frame[c].password # <<>>
         /\ Len(frame[c].password) <= frame[c].max_length)
            => ret[c].value = ret[d].value

\* two callers hashed the same text, one of them after another text had
\* been hashed in between
C15_Witness ==
    /\ Returned(1, "basic_fib_hash") /\ Returned(2, "basic_fib_hash")
    /\ frame[1].password = <<49, 50>> /\ frame[2].password = <<49, 50>>
    /\ frame[1].max_length = MaxLen /\ frame[2].max_length = MaxLen
    /\ IsDigest(ret[1].value)
    /\ ncalls = HashCalls

MatchesRecord(req_data) ==
    \E k \in DOMAIN profiles : profiles[k] = hashed(req_data)

\* C17: a login whose credentials match no registered record is answered
\* with status 400 and 'Wrong credentials.' and no token; a token is issued
\* only when every submitted field matches the stored record
C17_WrongCredentialsAnswer ==
    \A c \in Callers :
        Returned(c, "Login.post")
            => /\ ~MatchesRecord(frame[c].req_data)
                    => /\ ret[c].value.status = 400
                       /\ ret[c].value.msg = "Wrong credentials."
                       /\ ret[c].value.token = None
               /\ ret[c].value.token # None => MatchesRecord(frame[c].req_data)

\* 2^n
RECURSIVE Pow2(_)
Pow2(n) == IF n = 0 THEN 1 ELSE 2 * Pow2(n - 1)

\* worker w of SlowBlackbox goes through the body of its loop in this step
SlowWakeUp(w) ==
    /\ w \in DOMAIN slow_threads
    /\ slow_threads[w].pc = "body"
    /\ slow_threads'[w].pc # "body"

C18_IdleWakeUpRule ==
    \A w \in 1..MaxSlowCalls :
        (SlowWakeUp(w) /\ slow.result_queue = <<>>)
            => /\ slow'.interval =
                     IF slow_threads[w].doubled THEN 2 * slow.interval ELSE slow.interval
               /\ ~slow_threads'[w].doubled

C18_IntervalBound ==
    slow.interval <= Pow2(Len(slow_threads) + slow.total_processed)

C19_NonEmptyWakeUpRule ==
    \A w \in 1..MaxSlowCalls :
        (SlowWakeUp(w) /\ slow.result_queue # <<>>)
            => /\ slow'.result_queue = Tail(slow.result_queue)
               /\ slow'.output_queue = Append(slow.output_queue, Head(slow.result_queue))
               /\ slow'.total_processed = slow.total_processed + 1
               /\ slow'.interval = slow.interval

C19_EnqueuedIsPendingPlusProcessed ==
    Len(log.slow_put) = Len(slow.result_queue) + slow.total_processed

\* C19: a wake-up of the SlowBlackbox worker that finds the pending queue
\* non-empty removes exactly one item, puts it on the output queue and adds
\* one to total_processed; the results enqueued so far are always as many
\* as the pending ones plus total_processed
C19_OneItemPerWakeUp ==
    /\ []C19_EnqueuedIsPendingPlusProcessed
    /\ [][C19_NonEmptyWakeUpRule]_vars

\* two results were enqueued, one has been processed and one is pending
C19_Witness ==
    /\ Len(log.slow_put) = 2
    /\ slow.total_processed = 1
    /\ Len(slow.result_queue) = 1
    /\ log.slow_got = <<log.slow_put[1]>>

\* worker w of HalvingBlackbox goes through the body of its loop in this step
HalvingIteration(w) ==
    /\ w \in DOMAIN halving_threads
    /\ halving_threads[w].pc = "body"
    /\ halving_threads'[w].pc # "body"

C20_IterationRule ==
    \A w \in 1..MaxHalvingCalls :
        HalvingIteration(w)
            => IF halving.queue = <<>>
               THEN /\ halving'.q = halving.q + 1
                    /\ halving'.queue = <<>>
                    /\ halving'.total_printed = halving.total_printed
                    /\ log'.halving_got = log.halving_got
               ELSE /\ halving'.queue = Tail(halving.queue)
                    /\ log'.halving_got = Append(log.halving_got, Head(halving.queue))
                    /\ halving'.total_printed = halving.total_printed + 1
                    /\ halving'.q = IF Len(halving.queue) > 1
                                    THEN halving.q - 1 ELSE halving.q

\* C20: an iteration of the HalvingBlackbox worker doubles q and emits
\* nothing on an empty queue; on a non-empty queue it takes and emits exactly
\* one item, then halves q if the queue is still non-empty and leaves q as it
\* is otherwise
C20_QuantumRule == [][C20_IterationRule]_vars

\* the worker found two items pending: it emitted the first and halved q,
\* then emitted the second and left q as it was
C20_Witness ==
    /\ halving.total_printed = 2
    /\ halving.queue = <<>>
    /\ halving.q = -1

\* C21: every verify_password call that passes the guard (registered user,
\* recognised mitigation) compares the supplied value against all five
\* stored hashes before it returns, whatever the earlier comparisons gave
C21_VerifyComparesAllFive ==
    \A c \in Callers :
        (/\ Returned(c, "verify_password")
         /\ frame[c].username \in DOMAIN users
         /\ frame[c].mitigation_system \in MITIGATION_SYSTEMS)
            => frame[c].checked = NumHashes

HalvingStarted == halving.print_thread # 0

C22_EmittedWithinExpected ==
    HalvingStarted => halving.total_printed <= halving.expected_outputs

C22_WorkerEndsAtExpected ==
    \A w \in DOMAIN halving_threads :
        (/\ halving_threads[w].pc = "check"
         /\ halving_threads'[w].pc # "check"
         /\ halving.total_printed >= halving.expected_outputs)
            => halving_threads'[w].pc = "dead"

C22_WorkerEnds == [][C22_WorkerEndsAtExpected]_vars

\* C22: a started HalvingBlackbox never has more than expected_outputs
\* results emitted in total, and a worker that finds the emitted count at
\* expected_outputs or above after an iteration ends
C22_StopsAfterExpectedOutputs ==
    []C22_EmittedWithinExpected /\ C22_WorkerEnds

C23_StopClearsRunning ==
    /\ \A c \in Callers : pc[c] = "slow_stop_clear" /\ pc'[c] # pc[c] => ~slow'.running
    /\ \A c \in Callers : pc[c] = "halving_stop" /\ pc'[c] # pc[c] => ~halving'.running

C23_StoppedWorkerExits ==
    /\ \A w \in log.slow_stopped :
          slow_threads[w].pc = "loop" /\ slow_threads'[w].pc # "loop"
              => slow_threads'[w].pc = "dead"
    /\ \A w \in log.halving_stopped :
          halving_threads[w].pc = "loop" /\ halving_threads'[w].pc # "loop"
              => halving_threads'[w].pc = "dead"

C23_EndedForGood ==
    /\ \A w \in DOMAIN slow_threads :
          slow_threads[w].pc = "dead" => slow_threads'[w].pc = "dead"
    /\ \A w \in DOMAIN halving_threads :
          halving_threads[w].pc = "dead" => halving_threads'[w].pc = "dead"

C23_StopReturns ==
    /\ \A c \in Callers : pc[c] = "slow_stop_join" => ENABLED slow_stop_join(c)
    /\ \A c \in Callers : pc[c] = "halving_stop_join" => ENABLED halving_stop_join(c)

C23_StoppedWorkerLeavesQueue ==
    /\ \A w \in log.slow_stopped :
          slow_threads[w].pc = "body" /\ slow_threads'[w].pc # "body"
              => slow'.result_queue = slow.result_queue
    /\ \A w \in log.halving_stopped :
          halving_threads[w].pc = "body" /\ halving_threads'[w].pc # "body"
              => halving'.queue = halving.queue

\* C23: stop() clears the running flag; a worker that was alive then ends at
\* its next loop check whatever has happened since, and stays ended; the
\* join in stop() never blocks for good; and such a worker takes nothing more
\* from the pending queue
C23_StopIsCooperativeAndBounded ==
    /\ [][C23_StopClearsRunning]_vars
    /\ [][C23_StoppedWorkerExits]_vars
    /\ [][C23_EndedForGood]_vars
    /\ []C23_StopReturns
    /\ [][C23_StoppedWorkerLeavesQueue]_vars

\* C24: 'exponential' is a key of MITIGATION_SYSTEMS, so that verify_password
\* called with it for a registered user passes the guard and has the
\* password hashed through that mitigation
C24_ExponentialRegistered ==
    /\ "exponential" \in MITIGATION_SYSTEMS
    /\ \A c \in Callers :
          (/\ Returned(c, "verify_password")
           /\ frame[c].mitigation_system = "exponential"
           /\ frame[c].username \in DOMAIN users)
              => frame[c].test_hash # None

\* what verify_password returns under 'none' for the same store and arguments
none_outcome(us, username, password) ==
    IF verify_rejects(us, username, "none") THEN FALSE
    ELSE compare_loop(func(password), us[username].password_hashes, 1)[1]

\* C25: a verify_password call under 'slow' or 'halving' returns the boolean
\* that the call returns under 'none' for the same store, user and password,
\* whatever calls were made before it
C25_MitigationKeepsOutcome ==
    \A c \in Callers :
        (Returned(c, "verify_password")
            /\ frame[c].mitigation_system \in {"slow", "halving"})
            => ret[c].value = none_outcome(users, frame[c].username, frame[c].password)

\* C26: in a run that uses the instances through __call__ only, every result
\* put on a pending queue is eventually taken from it by a worker (so the
\* queue does not keep what was put on it)
C26_EveryResultDequeued ==
    \A n \in 1..MaxApplyCalls :
        /\ (Len(log.slow_put) >= n) ~> (Len(log.slow_got) >= n)
        /\ (Len(log.halving_put) >= n) ~> (Len(log.halving_got) >= n)

C26_SlowResultsDequeued ==
    \A n \in 1..MaxApplyCalls : (Len(log.slow_put) >= n) ~> (Len(log.slow_got) >= n)

\* C27: verify_password called with the empty text returns False, whatever
\* the user was registered with
C27_EmptyPasswordRefused ==
    \A c \in Callers :
        (Returned(c, "verify_password") /\ frame[c].password = <<>>)
            => ret[c].value = FALSE

Occurrences(s, x) == Cardinality({i \in DOMAIN s : s[i] = x})

IsPermutation(s, t) ==
    Len(s) = Len(t) /\ \A x \in Codes : Occurrences(s, x) = Occurrences(t, x)

\* C28 as stated: basic_fib_hash returns the same digest for a non-empty text
\* and for every permutation of its characters
C28_PermutationSameDigest ==
    \A c, d \in Callers :
        (/\ Returned(c, "basic_fib_hash") /\ Returned(d, "basic_fib_hash")
         /\ frame[c].max_length = frame[d].max_length
         /\ frame[c].password # <<>>
         /\ IsPermutation(frame[c].password, frame[d].password))
            => ret[c].value = ret[d].value

\* C28 amended: basic_fib_hash returns the same digest for a non-empty text
\* of at most max_length characters and for every permutation of its
\* characters
C28_PermutationWithinMaxLength ==
    \A c, d \in Callers :
        (/\ Returned(c, "basic_fib_hash") /\ Returned(d, "basic_fib_hash")
         /\ frame[c].max_length = frame[d].max_length
         /\ frame[c].password # <<>>
         /\ Len(frame[c].password) <= frame[c].max_length
         /\ IsPermutation(frame[c].password, frame[d].password))
            => /\ IsDigest(ret[c].value)
               /\ ret[c].value = ret[d].value

\* the two callers hashed '12' and '21' whole and got one digest, which is
\* not the digest of '11'
C28_Witness ==
    /\ Returned(1, "basic_fib_hash") /\ Returned(2, "basic_fib_hash")
    /\ frame[1].password = <<49, 50>> /\ frame[2].password = <<50, 49>>
    /\ frame[1].max_length = MaxLen /\ frame[2].max_length = MaxLen
    /\ IsDigest(ret[1].value)
    /\ ret[1].value = ret[2].value
    /\ ret[1].value # Digests[<<49, 49>>]

====
